---- MODULE Spec2Model ----
(***************************************************************************)
(* Model of the OpenRemote deploy scripts: backup.py, restore.py and       *)
(* deploy.py.  Strings are sequences of tokens; the docker engine, the     *)
(* PostgreSQL server inside the container and the compose tool are the     *)
(* environment of the scripts.                                             *)
(***************************************************************************)
EXTENDS Integers, Sequences, FiniteSets, TLC

VARIABLES
    docker,         \* containers of the docker engine, in reported order
    \* ---- restore.py
    args,           \* parse_arguments(): --container and --backup
    rpc,            \* position of restore.py ("idle" until it is started)
    container_name, \* main(): container_name
    backup_file,    \* main(): backup_file
    container,      \* main(): container = client.containers.get(...)
    env_vars,       \* main(): env_vars = get_postgres_env(container)
    env,            \* main(): env = {"PGPASSWORD": password}
    issued,         \* the container calls issued so far, in order
    exit_code,      \* exit code each issued command returned
    rlog,           \* outcome messages logged by restore.py
    rstatus,        \* exit status of the restore.py process
    \* ---- the PostgreSQL server and the two file systems
    dbExists,       \* the database 'openremote' exists
    dbRows,         \* rows held by its tables
    conns,          \* clients with a backend connected to it
    tmpFiles,       \* files in /tmp of the container
    hostFiles,      \* files of the host working directory, in listdir order
    \* ---- deploy.py
    dpc,            \* position of deploy.py
    force,          \* deploy(force)
    stackRunning,   \* the compose project 'openremote' has running services
    runningAtStart, \* stackRunning when deploy started
    detected,       \* what is_docker_compose_running returned
    prompted,       \* prompt_to_remove_stack asked the operator
    config,         \* config.json: whether it exists, and its object
    generated,      \* passwords generated and displayed, by key
    environ,        \* os.environ
    compose,        \* compose commands issued so far, in order
    upWhileRunning, \* 'up -d' was issued while the stack was running
    dlog,           \* outcome messages printed by deploy.py
    dstatus,        \* exit status of the deploy.py process
    \* ---- backup.py
    bpc,            \* position of backup.py
    bargs,          \* parse_arguments(): --container
    bcontainer_name,\* main(): container_name
    benv_vars,      \* main(): env_vars, or the ValueError raised
    bcreds,         \* main(): dbname, user, password
    bbackup_file,   \* main(): backup_file
    dump_code,      \* exit code of pg_dump (exec_run's result is discarded)
    dumped,         \* rows the tables held when pg_dump ran
    blog,           \* outcome messages printed by backup.py
    bstatus         \* exit status of the backup.py process

restoreVars == <<args, rpc, container_name, backup_file, container, env_vars,
                 env, issued, exit_code, rlog, rstatus>>
dbVars == <<dbExists, dbRows, conns>>
deployVars == <<dpc, force, stackRunning, runningAtStart, detected, prompted,
                config, generated, environ, compose, upWhileRunning, dlog, dstatus>>
backupVars == <<bpc, bargs, bcontainer_name, benv_vars, bcreds, bbackup_file,
                dump_code, dumped, blog, bstatus>>
vars == <<docker, restoreVars, dbVars, tmpFiles, hostFiles, deployVars, backupVars>>

\* ------------------------------------------------------------------ bounds
NumClients == 2
NumRows == 1
MaxEnvLen == 2
MaxTail == 3

Clients == 1..NumClients
Rows == 1..NumRows

\* ------------------------------------------------------------- strings
RECURSIVE IndexOf(_, _, _)
\* index of the first occurrence of token t in s at or after i, 0 if none
IndexOf(s, t, i) ==
    IF i > Len(s) THEN 0
    ELSE IF s[i] = t THEN i
    ELSE IndexOf(s, t, i + 1)

\* str.startswith
StartsWith(s, p) == Len(s) >= Len(p) /\ SubSeq(s, 1, Len(p)) = p

\* str.endswith
EndsWith(s, p) ==
    Len(s) >= Len(p) /\ SubSeq(s, Len(s) - Len(p) + 1, Len(s)) = p

\* 'x' in s
Contains(s, t) == IndexOf(s, t, 1) # 0

\* os.path.basename
basename(path) ==
    LET RECURSIVE Last(_)
        Last(i) == IF i = 0 THEN 0
                   ELSE IF path[i] = "/" THEN i ELSE Last(i - 1)
    IN  SubSeq(path, Last(Len(path)) + 1, Len(path))

\* int(input(...)): a ValueError unless an optional '-' and then digits
Digits == {"0", "1", "2", "3"}
DigitVal(d) == CASE d = "0" -> 0 [] d = "1" -> 1 [] d = "2" -> 2 [] d = "3" -> 3
RECURSIVE NatOf(_)
NatOf(s) == IF s = <<>> THEN 0
            ELSE 10 * NatOf(SubSeq(s, 1, Len(s) - 1)) + DigitVal(s[Len(s)])
IsNat(s) == s # <<>> /\ \A i \in 1..Len(s) : s[i] \in Digits
int(s) ==
    IF IsNat(s) THEN [ok |-> TRUE, val |-> NatOf(s)]
    ELSE IF s # <<>> /\ s[1] = "-" /\ IsNat(Tail(s))
         THEN [ok |-> TRUE, val |-> 0 - NatOf(Tail(s))]
    ELSE [ok |-> FALSE, val |-> 0]

MenuInputs == { <<"a">>, <<"0">>, <<"1">>, <<"2">>, <<"3">>, <<"-", "1">> }

\* ------------------------------------------------ credential extraction
\* dict helpers: a dict is a function from keys to values
EmptyDict == [k \in {} |-> <<>>]
DictSet(d, k, v) == [x \in (DOMAIN d) \cup {k} |-> IF x = k THEN v ELSE d[x]]
DictGet(d, k, default) == IF k \in DOMAIN d THEN d[k] ELSE default

\* str.split("=", 1): the part before the first "=", and the rest if any
SplitFirst(e) ==
    LET i == IndexOf(e, "=", 1)
    IN  IF i = 0 THEN <<e>>
        ELSE <<SubSeq(e, 1, i - 1), SubSeq(e, i + 1, Len(e))>>

\* str.split("="): every part between "=" signs
RECURSIVE Split(_)
Split(e) ==
    LET i == IndexOf(e, "=", 1)
    IN  IF i = 0 THEN <<e>>
        ELSE <<SubSeq(e, 1, i - 1)>> \o Split(SubSeq(e, i + 1, Len(e)))

PREFIX == <<"POSTGRES_">>

\* backup.py get_postgres_env_variables: the loop over env_vars; unpacking
\* var.split("=", 1) into key, value raises ValueError on an entry without "="
RECURSIVE get_postgres_env_variables(_)
get_postgres_env_variables(env_list) ==
    IF env_list = <<>> THEN [raised |-> FALSE, d |-> EmptyDict]
    ELSE LET rest == get_postgres_env_variables(
                         SubSeq(env_list, 1, Len(env_list) - 1))
             var  == env_list[Len(env_list)]
             kv   == SplitFirst(var)
         IN  IF rest.raised THEN rest
             ELSE IF ~StartsWith(var, PREFIX) THEN rest
             ELSE IF Len(kv) # 2 THEN [raised |-> TRUE, d |-> EmptyDict]
             ELSE [raised |-> FALSE, d |-> DictSet(rest.d, kv[1], kv[2])]

\* restore.py get_postgres_env: the dict comprehension
RECURSIVE get_postgres_env(_)
get_postgres_env(env_list) ==
    IF env_list = <<>> THEN EmptyDict
    ELSE LET rest == get_postgres_env(SubSeq(env_list, 1, Len(env_list) - 1))
             e    == env_list[Len(env_list)]
         IN  IF Contains(e, "=") /\ StartsWith(e, PREFIX)
             THEN DictSet(rest, Split(e)[1], Split(e)[2])
             ELSE rest

POSTGRES_PASSWORD == <<"POSTGRES_", "PASSWORD">>
POSTGRES_DB == <<"POSTGRES_", "DB">>
POSTGRES_USER == <<"POSTGRES_", "USER">>

\* ----------------------------------------------------- the docker engine
\* containers the engine reports, in the order it reports them
PgRunning == [name |-> <<"or_", "postgres", "_1">>, running |-> TRUE,
              Env |-> << <<"PATH", "=", "a">>,
                         <<"POSTGRES_", "PASSWORD", "=", "a", "=", "b">> >>]
PgStopped == [name |-> <<"old_", "postgres">>, running |-> FALSE,
              Env |-> << <<"POSTGRES_", "PASSWORD", "=", "a">> >>]
Manager   == [name |-> <<"or_", "manager", "_1">>, running |-> TRUE,
              Env |-> << <<"PATH", "=", "a">> >>]
NoContainer == [name |-> <<>>, running |-> FALSE, Env |-> <<>>]

DockerWorlds == { <<>>, <<Manager, PgRunning>>, <<PgStopped, PgRunning>> }

\* ------------------------------------------------------------ the files
BAK == <<".bak">>
SQL == <<".sql">>
\* a custom-format archive made earlier, holding the rows in Rows
OldBak == [name |-> <<"1700000000", "-openremote", ".bak">>,
           fmt |-> "custom", rows |-> Rows]
Notes  == [name |-> <<"notes", ".txt">>, fmt |-> "text", rows |-> {}]
NoFile == [name |-> <<>>, fmt |-> "none", rows |-> {}]

FileNamed(files, n) ==
    IF \E i \in 1..Len(files) : files[i].name = n
    THEN files[CHOOSE i \in 1..Len(files) : files[i].name = n]
    ELSE NoFile

\* ------------------------------------------------------------- restore.py
\* find_postgres_containers
find_postgres_containers ==
    SelectSeq(docker, LAMBDA c : Contains(c.name, "postgres"))

\* display_container_menu, given the line typed at the prompt
display_container_menu(containers, typed) ==
    IF containers = <<>> THEN <<>>
    ELSE LET selection == int(typed)
         IN  IF selection.ok /\ 1 <= selection.val
                /\ selection.val <= Len(containers)
             THEN containers[selection.val].name
             ELSE <<>>

\* display_backup_file_menu, given the line typed at the prompt
display_backup_file_menu(typed) ==
    LET files == SelectSeq(hostFiles, LAMBDA f : EndsWith(f.name, BAK))
        selection == int(typed)
    IN  IF files = <<>> THEN <<>>
        ELSE IF selection.ok /\ 1 <= selection.val /\ selection.val <= Len(files)
             THEN files[selection.val].name
             ELSE <<>>

\* main, lines 149-155: resolve the container name and the backup file
RMain ==
    /\ rpc = "start"
    /\ \E typed1 \in MenuInputs, typed2 \in MenuInputs :
          LET cn == IF args.container # <<>> THEN args.container
                    ELSE display_container_menu(find_postgres_containers, typed1)
              bf == IF args.backup # <<>> THEN args.backup
                    ELSE display_backup_file_menu(typed2)
          IN  /\ container_name' = cn
              /\ backup_file' = bf
              /\ IF cn = <<>> \/ bf = <<>>
                 THEN /\ rlog' = rlog \cup {"Both container and backup file are required."}
                      /\ rpc' = "done"
                      /\ rstatus' = 0
                 ELSE /\ rpc' = "get"
                      /\ UNCHANGED <<rlog, rstatus>>
    /\ UNCHANGED <<args, container, env_vars, env, issued, exit_code>>
    /\ UNCHANGED <<dbVars, tmpFiles, hostFiles, docker>>
    /\ UNCHANGED <<deployVars, backupVars>>

\* main, lines 157-165: containers.get raises NotFound for an unknown name
RGet ==
    /\ rpc = "get"
    /\ IF \E i \in 1..Len(docker) : docker[i].name = container_name
       THEN LET c == docker[CHOOSE i \in 1..Len(docker) :
                                   docker[i].name = container_name]
                password == DictGet(get_postgres_env(c.Env), POSTGRES_PASSWORD, <<>>)
            IN  /\ container' = c
                /\ env_vars' = get_postgres_env(c.Env)
                /\ env' = password
                /\ rpc' = "copy"
                /\ UNCHANGED rstatus
       ELSE /\ rpc' = "crashed"
            /\ rstatus' = 1
            /\ UNCHANGED <<container, env_vars, env>>
    /\ UNCHANGED <<args, container_name, backup_file, issued, exit_code, rlog>>
    /\ UNCHANGED <<dbVars, tmpFiles, hostFiles, docker>>
    /\ UNCHANGED <<deployVars, backupVars>>

\* copy_backup_to_container: open() raises when the file is missing;
\* put_archive unpacks the single-entry tar into /tmp of the container
copy_backup_to_container ==
    /\ rpc = "copy"
    /\ LET f == FileNamed(hostFiles, backup_file)
       IN  IF f = NoFile
           THEN /\ rpc' = "crashed"
                /\ rstatus' = 1
                /\ UNCHANGED <<issued, tmpFiles>>
           ELSE /\ issued' = Append(issued, "copy")
                /\ tmpFiles' = {t \in tmpFiles : t.name # basename(backup_file)}
                                  \cup {[f EXCEPT !.name = basename(backup_file)]}
                /\ rpc' = "disconnect"
                /\ UNCHANGED rstatus
    /\ UNCHANGED <<args, container_name, backup_file, container, env_vars, env,
                   exit_code, rlog>>
    /\ UNCHANGED <<dbVars, hostFiles, docker>>
    /\ UNCHANGED <<deployVars, backupVars>>

\* ---- the PostgreSQL server inside the container, as the commands see it
TmpFile(n) ==
    IF \E t \in tmpFiles : t.name = n
    THEN CHOOSE t \in tmpFiles : t.name = n
    ELSE NoFile

\* the command can exit 0 in the current state of the server
CanSucceed(step) ==
    CASE step = "disconnect" -> dbExists
      [] step = "dropdb"     -> dbExists /\ conns = {}
      [] step = "createdb"   -> ~dbExists
      [] step = "pg_restore" -> dbExists
                                /\ TmpFile(basename(backup_file)).fmt = "custom"
      [] OTHER               -> dbExists

\* any command may exit non-zero; it exits 0 only when it can succeed
ExitCodes(step) == IF CanSucceed(step) THEN {0, 1} ELSE {1}

\* the states <<dbExists, dbRows, conns>> the command may leave behind
DbAfter(step, code) ==
    CASE step = "disconnect" /\ code = 0 -> { <<dbExists, dbRows, {}>> }
      [] step = "dropdb" /\ code = 0     -> { <<FALSE, {}, {}>> }
      [] step = "createdb" /\ code = 0   -> { <<TRUE, {}, {}>> }
      [] step = "pg_restore" /\ code = 0 ->
            { <<dbExists, dbRows \cup TmpFile(basename(backup_file)).rows, conns>> }
      [] step = "pg_restore" /\ code # 0 /\ CanSucceed(step) ->
            \* a load that reports errors may have loaded any part of the archive
            { <<dbExists, dbRows \cup part, conns>> :
                  part \in SUBSET TmpFile(basename(backup_file)).rows }
      [] OTHER -> { <<dbExists, dbRows, conns>> }

\* a database client (an application container) opens a connection
ClientConnect ==
    /\ dbExists
    /\ \E c \in Clients \ conns : conns' = conns \cup {c}
    /\ UNCHANGED <<dbExists, dbRows, tmpFiles, hostFiles, docker>>
    /\ UNCHANGED <<restoreVars, deployVars, backupVars>>

\* ---- restore_database
\* what restore_database does after `step` returned exit code `code`:
\* the exit code is logged by log_output and the next statement runs
RestoreSuccessorDropFirst(step, code) ==
    CASE step = "copy"         -> "dropdb"
      [] step = "dropdb"       -> "disconnect"
      [] step = "disconnect"   -> "createdb"
      [] step = "createdb"     -> "postgis"
      [] step = "postgis"      -> "timescaledb"
      [] step = "timescaledb"  -> "pre_restore"
      [] step = "pre_restore"  -> "pg_restore"
      [] step = "pg_restore"   -> "post_restore"
      [] step = "post_restore" -> "report"

RestoreSuccessorEarlyReturn(step, code) ==
    CASE step = "copy"         -> "disconnect"
      [] step = "disconnect"   -> "dropdb"
      [] step = "dropdb"       -> "createdb"
      [] step = "createdb"     -> "postgis"
      [] step = "postgis"      -> "timescaledb"
      [] step = "timescaledb"  -> "pre_restore"
      [] step = "pre_restore"  -> "pg_restore"
      [] step = "pg_restore"   -> IF code # 0 THEN "report" ELSE "post_restore"
      [] step = "post_restore" -> "report"

RestoreSuccessor(step, code) ==
    CASE step = "copy"         -> "disconnect"
      [] step = "disconnect"   -> "dropdb"
      [] step = "dropdb"       -> "createdb"
      [] step = "createdb"     -> "postgis"
      [] step = "postgis"      -> "timescaledb"
      [] step = "timescaledb"  -> "pre_restore"
      [] step = "pre_restore"  -> "pg_restore"
      [] step = "pg_restore"   -> "post_restore"
      [] step = "post_restore" -> "report"

\* container.exec_run(...) followed by log_output(result): the call is issued,
\* raises APIError when the container is not running, else returns an exit
\* code that log_output only logs
ExecRun(step) ==
    /\ rpc = step
    /\ issued' = Append(issued, step)
    /\ IF ~container.running
       THEN /\ rpc' = "crashed"
            /\ rstatus' = 1
            /\ UNCHANGED <<exit_code, dbVars>>
       ELSE \E code \in ExitCodes(step) :
              /\ exit_code' = [s \in (DOMAIN exit_code) \cup {step} |->
                                  IF s = step THEN code ELSE exit_code[s]]
              /\ \E db \in DbAfter(step, code) :
                    /\ dbExists' = db[1]
                    /\ dbRows' = db[2]
                    /\ conns' = db[3]
              /\ rpc' = RestoreSuccessor(step, code)
              /\ UNCHANGED rstatus
    /\ UNCHANGED <<args, container_name, backup_file, container, env_vars, env>>
    /\ UNCHANGED <<tmpFiles, hostFiles, docker>>
    /\ UNCHANGED <<deployVars, backupVars>>

\* disconnect_all_connections: run_psql, then one of two log lines
disconnect_all_connections ==
    /\ ExecRun("disconnect")
    /\ rlog' = IF "disconnect" \in DOMAIN exit_code'
               THEN IF exit_code'["disconnect"] # 0
                    THEN rlog \cup {"Failed to disconnect all active connections."}
                    ELSE rlog \cup {"All active connections disconnected."}
               ELSE rlog

\* restore_database, lines 111-113
DropDatabase == ExecRun("dropdb") /\ UNCHANGED rlog
\* restore_database, lines 115-117
CreateDatabase == ExecRun("createdb") /\ UNCHANGED rlog
\* restore_database, line 119
CreatePostgis == ExecRun("postgis") /\ UNCHANGED rlog
\* restore_database, line 120
CreateTimescaledb == ExecRun("timescaledb") /\ UNCHANGED rlog
\* restore_database, line 121
PreRestore == ExecRun("pre_restore") /\ UNCHANGED rlog
\* restore_database, lines 123-129
PgRestore == ExecRun("pg_restore") /\ UNCHANGED rlog
\* restore_database, line 131
PostRestore == ExecRun("post_restore") /\ UNCHANGED rlog

\* restore_database, lines 133-136, and the return of main
RReport ==
    /\ rpc = "report"
    /\ rlog' = rlog \cup { IF exit_code["pg_restore"] # 0
                           THEN "Restore failed."
                           ELSE "Database restored successfully." }
    /\ rpc' = "done"
    /\ rstatus' = 0
    /\ UNCHANGED <<args, container_name, backup_file, container, env_vars, env,
                   issued, exit_code>>
    /\ UNCHANGED <<dbVars, tmpFiles, hostFiles, docker>>
    /\ UNCHANGED <<deployVars, backupVars>>

RestoreNext ==
    \/ RMain
    \/ RGet
    \/ copy_backup_to_container
    \/ disconnect_all_connections
    \/ DropDatabase
    \/ CreateDatabase
    \/ CreatePostgis
    \/ CreateTimescaledb
    \/ PreRestore
    \/ PgRestore
    \/ PostRestore
    \/ RReport

DeployIdle ==
    /\ dpc = "idle"
    /\ force = FALSE
    /\ stackRunning = FALSE
    /\ runningAtStart = FALSE
    /\ detected = FALSE
    /\ prompted = FALSE
    /\ config = [exists |-> FALSE, data |-> EmptyDict]
    /\ generated = EmptyDict
    /\ environ = EmptyDict
    /\ compose = <<>>
    /\ upWhileRunning = FALSE
    /\ dlog = {}
    /\ dstatus = -1

BackupIdle ==
    /\ bpc = "idle"
    /\ bargs = <<>>
    /\ bcontainer_name = <<>>
    /\ benv_vars = [raised |-> FALSE, d |-> EmptyDict]
    /\ bcreds = [dbname |-> <<>>, user |-> <<>>, password |-> <<>>]
    /\ bbackup_file = <<>>
    /\ dump_code = -1
    /\ dumped = {}
    /\ blog = {}
    /\ bstatus = -1

\* ---- restore.py run on its own by an operator
RestoreArgs ==
    { [container |-> <<>>, backup |-> <<>>],
      [container |-> PgRunning.name, backup |-> OldBak.name],
      [container |-> PgStopped.name, backup |-> <<>>],
      [container |-> <<"nosuch">>, backup |-> OldBak.name],
      [container |-> <<>>, backup |-> <<"missing", ".bak">>] }

DbInit ==
    /\ dbExists \in BOOLEAN
    /\ dbRows = {}
    /\ conns \in IF dbExists THEN SUBSET Clients ELSE {{}}
    /\ tmpFiles = {}

RestoreIdle ==
    /\ container_name = <<>>
    /\ backup_file = <<>>
    /\ container = NoContainer
    /\ env_vars = EmptyDict
    /\ env = <<>>
    /\ issued = <<>>
    /\ exit_code = EmptyDict
    /\ rlog = {}
    /\ rstatus = -1

InitRestore ==
    /\ docker \in DockerWorlds
    /\ hostFiles \in { <<>>, <<Notes, OldBak>> }
    /\ DbInit
    /\ args \in RestoreArgs
    /\ rpc = "start"
    /\ RestoreIdle
    /\ DeployIdle
    /\ BackupIdle

NextRestore == RestoreNext \/ ClientConnect

SpecRestore == InitRestore /\ [][NextRestore]_vars

\* ------------------------------------------------------------- deploy.py
OR_ADMIN_PASSWORD == "OR_ADMIN_PASSWORD"
KEYCLOAK_ADMIN_PASSWORD == "KEYCLOAK_ADMIN_PASSWORD"
OR_HOSTNAME == "OR_HOSTNAME"
PasswordKeys == {OR_ADMIN_PASSWORD, KEYCLOAK_ADMIN_PASSWORD}

\* values generate_secure_password may return
GeneratedPasswords == {"Gen1", "Gen2"}

\* the objects config.json may hold: OR_HOSTNAME set, each password key
\* absent, blank or set
Configs ==
    { [k \in keys \cup {OR_HOSTNAME} |->
          IF k = OR_HOSTNAME THEN "localhost"
          ELSE IF k \in blank THEN "" ELSE "secret"] :
      keys \in SUBSET PasswordKeys, blank \in SUBSET PasswordKeys }

deployRest == <<docker, restoreVars, dbVars, tmpFiles, hostFiles, backupVars>>

\* a check that calls sys.exit(1) when the tool is missing
ToolCheck(here, next) ==
    /\ dpc = here
    /\ \E installed \in BOOLEAN :
          IF installed
          THEN dpc' = next /\ UNCHANGED dstatus
          ELSE dpc' = "exit" /\ dstatus' = 1
    /\ UNCHANGED <<force, stackRunning, runningAtStart, detected, prompted, config,
                   generated, environ, compose, upWhileRunning, dlog>>
    /\ UNCHANGED deployRest

check_docker == ToolCheck("check_docker", "check_docker_compose")
check_docker_compose == ToolCheck("check_docker_compose", "check_python_docker_module")
check_python_docker_module == ToolCheck("check_python_docker_module", "is_running")

\* is_docker_compose_running: False when the ps command fails, else whether
\* it listed a running service
is_docker_compose_running(psOk) == IF psOk THEN stackRunning ELSE FALSE

\* deploy, lines 141-146: where deploy goes after the check
AfterRunningCheck(running, f) ==
    IF running THEN (IF f THEN "down" ELSE "prompt") ELSE "load"

DCheckRunning ==
    /\ dpc = "is_running"
    /\ \E psOk \in BOOLEAN :
          /\ detected' = is_docker_compose_running(psOk)
          /\ dpc' = AfterRunningCheck(is_docker_compose_running(psOk), force)
    /\ UNCHANGED <<force, stackRunning, runningAtStart, prompted, config, generated,
                   environ, compose, upWhileRunning, dlog, dstatus>>
    /\ UNCHANGED deployRest

\* subprocess.run([... "down"], check=True): CalledProcessError ends deploy
ComposeDown ==
    /\ compose' = Append(compose, "down")
    /\ \E ok \in BOOLEAN :
          IF ok
          THEN /\ stackRunning' = FALSE
               /\ dpc' = "load"
               /\ UNCHANGED dstatus
          ELSE /\ dpc' = "crashed"
               /\ dstatus' = 1
               /\ UNCHANGED stackRunning

\* deploy, lines 142-144
DForceDown ==
    /\ dpc = "down"
    /\ ComposeDown
    /\ UNCHANGED <<force, runningAtStart, detected, prompted, config, generated,
                   environ, upWhileRunning, dlog>>
    /\ UNCHANGED deployRest

\* prompt_to_remove_stack: anything but 'y' exits with status 0
prompt_to_remove_stack ==
    /\ dpc = "prompt"
    /\ prompted' = TRUE
    /\ \E response \in {"y", "n", ""} :
          IF response = "y"
          THEN ComposeDown
          ELSE /\ dpc' = "exit"
               /\ dstatus' = 0
               /\ UNCHANGED <<compose, stackRunning>>
    /\ UNCHANGED <<force, runningAtStart, detected, config, generated, environ,
                   upWhileRunning, dlog>>
    /\ UNCHANGED deployRest

\* `not config.get(key)`: the key is absent or its value is blank
NeedsPassword(cfg, key) == ~(key \in DOMAIN cfg /\ cfg[key] # "")

\* load_environment_variables, lines 81-87: the loop over the keys of config
LoadedEnviron(cfg, gen, old) ==
    [k \in (DOMAIN old) \cup (DOMAIN cfg) |->
        IF k \in DOMAIN cfg
        THEN IF k \in PasswordKeys
             THEN (IF cfg[k] # "" THEN cfg[k] ELSE gen[k])
             ELSE cfg[k]
        ELSE old[k]]

load_environment_variables ==
    /\ dpc = "load"
    /\ IF config.exists
       THEN \E pw \in [PasswordKeys -> GeneratedPasswords] :
               LET gen == [k \in {x \in PasswordKeys : NeedsPassword(config.data, x)}
                              |-> pw[k]]
               IN  /\ generated' = gen
                   /\ environ' = LoadedEnviron(config.data, gen, environ)
       ELSE UNCHANGED <<generated, environ>>
    /\ dpc' = "up"
    /\ UNCHANGED <<force, stackRunning, runningAtStart, detected, prompted, config,
                   compose, upWhileRunning, dlog, dstatus>>
    /\ UNCHANGED deployRest

\* start_docker_compose: 'up -d' with check=True
start_docker_compose ==
    /\ dpc = "up"
    /\ compose' = Append(compose, "up")
    /\ upWhileRunning' = stackRunning
    /\ \E ok \in BOOLEAN :
          IF ok
          THEN /\ stackRunning' = TRUE
               /\ dpc' = "wait"
               /\ UNCHANGED dstatus
          ELSE /\ dpc' = "crashed"
               /\ dstatus' = 1
               /\ UNCHANGED stackRunning
    /\ UNCHANGED <<force, runningAtStart, detected, prompted, config, generated,
                   environ, dlog>>
    /\ UNCHANGED deployRest

\* wait_for_containers: time.sleep(10)
wait_for_containers ==
    /\ dpc = "wait"
    /\ dpc' = "post"
    /\ UNCHANGED <<force, stackRunning, runningAtStart, detected, prompted, config,
                   generated, environ, compose, upWhileRunning, dlog, dstatus>>
    /\ UNCHANGED deployRest

\* run_post_deployment_script: restore.py is started without arguments
DStartRestore ==
    /\ dpc = "post"
    /\ rpc = "idle"
    /\ rpc' = "start"
    /\ args' = [container |-> <<>>, backup |-> <<>>]
    /\ dpc' = "join"
    /\ UNCHANGED <<container_name, backup_file, container, env_vars, env, issued,
                   exit_code, rlog, rstatus>>
    /\ UNCHANGED <<force, stackRunning, runningAtStart, detected, prompted, config,
                   generated, environ, compose, upWhileRunning, dlog, dstatus>>
    /\ UNCHANGED <<docker, dbVars, tmpFiles, hostFiles, backupVars>>

\* run_post_deployment_script and the end of deploy: check=True raises
\* CalledProcessError only when restore.py exited non-zero
DJoinRestore ==
    /\ dpc = "join"
    /\ rstatus # -1
    /\ IF rstatus # 0
       THEN /\ dpc' = "crashed"
            /\ dstatus' = 1
            /\ UNCHANGED dlog
       ELSE /\ dpc' = "done"
            /\ dstatus' = 0
            /\ dlog' = dlog \cup {"Post-deployment tasks completed.",
                                  "Deployment complete."}
    /\ UNCHANGED <<force, stackRunning, runningAtStart, detected, prompted, config,
                   generated, environ, compose, upWhileRunning>>
    /\ UNCHANGED deployRest

DeployNext ==
    \/ check_docker
    \/ check_docker_compose
    \/ check_python_docker_module
    \/ DCheckRunning
    \/ DForceDown
    \/ prompt_to_remove_stack
    \/ load_environment_variables
    \/ start_docker_compose
    \/ wait_for_containers
    \/ DStartRestore
    \/ DJoinRestore

InitDeploy ==
    /\ docker \in DockerWorlds
    /\ hostFiles \in { <<>>, <<Notes, OldBak>> }
    /\ dbExists \in BOOLEAN
    /\ dbRows = {}
    /\ conns = {}
    /\ tmpFiles = {}
    /\ args = [container |-> <<>>, backup |-> <<>>]
    /\ rpc = "idle"
    /\ RestoreIdle
    /\ BackupIdle
    /\ dpc = "check_docker"
    /\ force \in BOOLEAN
    /\ stackRunning \in BOOLEAN
    /\ runningAtStart = stackRunning
    /\ detected = FALSE
    /\ prompted = FALSE
    /\ config \in {[exists |-> FALSE, data |-> EmptyDict]}
                     \cup {[exists |-> TRUE, data |-> c] : c \in Configs}
    /\ generated = EmptyDict
    /\ environ = EmptyDict
    /\ compose = <<>>
    /\ upWhileRunning = FALSE
    /\ dlog = {}
    /\ dstatus = -1

NextDeploy == DeployNext \/ RestoreNext

SpecDeploy == InitDeploy /\ [][NextDeploy]_vars

\* ------------------------------------------------------------- backup.py
backupRest == <<docker, restoreVars, dbVars, deployVars>>

\* time.time() when backup.py builds the file name
Timestamp == "1700000001"

\* main, lines 122-136 and 149-150: resolve the container name
BMain ==
    /\ bpc = "start"
    /\ \E typed \in MenuInputs :
          LET cn == IF bargs # <<>> THEN bargs
                    ELSE display_container_menu(find_postgres_containers, typed)
          IN  /\ bcontainer_name' = cn
              /\ IF cn # <<>>
                 THEN /\ bpc' = "getenv"
                      /\ UNCHANGED <<blog, bstatus>>
                 ELSE /\ blog' = blog \cup {"No PostgreSQL container selected. Exiting."}
                      /\ bpc' = "done"
                      /\ bstatus' = 0
    /\ UNCHANGED <<bargs, benv_vars, bcreds, bbackup_file, dump_code, dumped>>
    /\ UNCHANGED <<backupRest, tmpFiles, hostFiles>>

\* main, lines 140-146: containers.get raises NotFound, the unpacking in
\* get_postgres_env_variables raises ValueError
BGetEnv ==
    /\ bpc = "getenv"
    /\ IF \E i \in 1..Len(docker) : docker[i].name = bcontainer_name
       THEN LET c == docker[CHOOSE i \in 1..Len(docker) :
                                   docker[i].name = bcontainer_name]
                got == get_postgres_env_variables(c.Env)
            IN  /\ benv_vars' = got
                /\ IF got.raised
                   THEN /\ bpc' = "crashed"
                        /\ bstatus' = 1
                        /\ UNCHANGED <<bcreds, bbackup_file>>
                   ELSE /\ bcreds' = [dbname   |-> DictGet(got.d, POSTGRES_DB, <<"postgres">>),
                                      user     |-> DictGet(got.d, POSTGRES_USER, <<"postgres">>),
                                      password |-> DictGet(got.d, POSTGRES_PASSWORD, <<>>)]
                        /\ bbackup_file' = <<Timestamp, "-openremote">> \o SQL
                        /\ bpc' = "dump"
                        /\ UNCHANGED bstatus
       ELSE /\ bpc' = "crashed"
            /\ bstatus' = 1
            /\ UNCHANGED <<benv_vars, bcreds, bbackup_file>>
    /\ UNCHANGED <<bargs, bcontainer_name, dump_code, dumped, blog>>
    /\ UNCHANGED <<backupRest, tmpFiles, hostFiles>>

\* what pg_dump -f /tmp/<file> may leave in /tmp: the whole plain-text dump
\* when it exits 0, nothing or a partial file when it does not
DumpOutcomes ==
    (IF dbExists
     THEN { [code |-> 0, file |-> {[name |-> bbackup_file, fmt |-> "plain",
                                    rows |-> dbRows]}] }
     ELSE {})
    \cup { [code |-> 1, file |-> {}] }
    \cup { [code |-> 1, file |-> {[name |-> bbackup_file, fmt |-> "plain",
                                   rows |-> part]}] : part \in SUBSET dbRows }

\* backup_postgres_container, lines 48-59: exec_run raises APIError when the
\* container is not running; its result is not looked at
BDump ==
    /\ bpc = "dump"
    /\ LET c == docker[CHOOSE i \in 1..Len(docker) : docker[i].name = bcontainer_name]
       IN  IF ~c.running
           THEN /\ bpc' = "crashed"
                /\ bstatus' = 1
                /\ UNCHANGED <<dump_code, dumped, tmpFiles>>
           ELSE \E o \in DumpOutcomes :
                   /\ dump_code' = o.code
                   /\ dumped' = dbRows
                   /\ tmpFiles' = {t \in tmpFiles : t.name # bbackup_file} \cup o.file
                   /\ bpc' = "copy"
                   /\ UNCHANGED bstatus
    /\ UNCHANGED <<bargs, bcontainer_name, benv_vars, bcreds, bbackup_file, blog>>
    /\ UNCHANGED <<backupRest, hostFiles>>

\* the host directory after writing `file` under its name
WriteHostFile(file) ==
    IF \E i \in 1..Len(hostFiles) : hostFiles[i].name = file.name
    THEN [i \in 1..Len(hostFiles) |->
             IF hostFiles[i].name = file.name THEN file ELSE hostFiles[i]]
    ELSE Append(hostFiles, file)

\* backup_postgres_container, lines 61-67: open(..., 'wb') creates the host
\* file, get_archive raises NotFound when /tmp holds no such file, else the
\* chunks of the tar stream are written to the host file as they come
BCopy ==
    /\ bpc = "copy"
    /\ LET t == TmpFile(bbackup_file)
       IN  IF t = NoFile
           THEN /\ hostFiles' = WriteHostFile([name |-> bbackup_file, fmt |-> "empty",
                                               rows |-> {}])
                /\ bpc' = "crashed"
                /\ bstatus' = 1
                /\ UNCHANGED blog
           ELSE /\ hostFiles' = WriteHostFile([name |-> bbackup_file, fmt |-> "tar",
                                               rows |-> t.rows])
                /\ blog' = blog \cup {"Backup completed"}
                /\ bpc' = "done"
                /\ bstatus' = 0
    /\ UNCHANGED <<bargs, bcontainer_name, benv_vars, bcreds, bbackup_file,
                   dump_code, dumped>>
    /\ UNCHANGED <<backupRest, tmpFiles>>

BackupNext == BMain \/ BGetEnv \/ BDump \/ BCopy

\* the operator runs restore.py after backup.py ended, picking the archive
\* from the menu or naming the file backup.py reported
OperatorRestores ==
    /\ bpc \in {"done", "crashed"}
    /\ rpc = "idle"
    /\ rpc' = "start"
    /\ args' \in { [container |-> <<>>, backup |-> <<>>],
                   [container |-> bcontainer_name, backup |-> bbackup_file] }
    /\ UNCHANGED <<container_name, backup_file, container, env_vars, env, issued,
                   exit_code, rlog, rstatus>>
    /\ UNCHANGED <<docker, dbVars, tmpFiles, hostFiles, deployVars, backupVars>>

InitBackup ==
    /\ docker \in DockerWorlds
    /\ hostFiles \in { <<>>, <<Notes, OldBak>> }
    /\ dbExists \in BOOLEAN
    /\ dbRows \in IF dbExists THEN SUBSET Rows ELSE {{}}
    /\ conns = {}
    /\ tmpFiles = {}
    /\ args = [container |-> <<>>, backup |-> <<>>]
    /\ rpc = "idle"
    /\ RestoreIdle
    /\ DeployIdle
    /\ bpc = "start"
    /\ bargs \in {<<>>, PgRunning.name, PgStopped.name, <<"nosuch">>}
    /\ bcontainer_name = <<>>
    /\ benv_vars = [raised |-> FALSE, d |-> EmptyDict]
    /\ bcreds = [dbname |-> <<>>, user |-> <<>>, password |-> <<>>]
    /\ bbackup_file = <<>>
    /\ dump_code = -1
    /\ dumped = {}
    /\ blog = {}
    /\ bstatus = -1

NextBackup == BackupNext \/ OperatorRestores \/ RestoreNext

SpecBackup == InitBackup /\ [][NextBackup]_vars

\* ------------------------------------- credential extraction on its own
\* every sequence over S of length at most n
SeqsUpTo(S, n) == UNION { [1..k -> S] : k \in 0..n }

\* entries of a container's Config.Env, each of the form NAME=value, where
\* the value is any text and may hold "=" signs itself
EnvEntries ==
    { head \o <<"=">> \o tail :
        head \in { <<"PATH">>, <<"POSTGRES_", "PASSWORD">>, <<"POSTGRES_", "DB">>,
                   <<"X", "POSTGRES_", "DB">> },
        tail \in SeqsUpTo({"=", "a"}, MaxTail) }

EnvLists == SeqsUpTo(EnvEntries, MaxEnvLen)

\* both scripts are pointed at one running container with any Env list
InitCred ==
    /\ \E e \in EnvLists :
          docker = << [name |-> PgRunning.name, running |-> TRUE, Env |-> e] >>
    /\ hostFiles = <<OldBak>>
    /\ dbExists = TRUE
    /\ dbRows = {}
    /\ conns = {}
    /\ tmpFiles = {}
    /\ args = [container |-> PgRunning.name, backup |-> OldBak.name]
    /\ rpc = "start"
    /\ RestoreIdle
    /\ DeployIdle
    /\ bpc = "start"
    /\ bargs = PgRunning.name
    /\ bcontainer_name = <<>>
    /\ benv_vars = [raised |-> FALSE, d |-> EmptyDict]
    /\ bcreds = [dbname |-> <<>>, user |-> <<>>, password |-> <<>>]
    /\ bbackup_file = <<>>
    /\ dump_code = -1
    /\ dumped = {}
    /\ blog = {}
    /\ bstatus = -1

NextCred == BMain \/ BGetEnv \/ RMain \/ RGet

SpecCred == InitCred /\ [][NextCred]_vars

\* ================================================== claims on restore.py
\* position of step t in the calls issued so far, 0 when it was not issued
Pos(t) == IndexOf(issued, t, 1)
\* how many times step t was issued
Count(t) == Cardinality({i \in 1..Len(issued) : issued[i] = t})
\* the container command t returned an exit code
Returned(t) == t \in DOMAIN exit_code

C1_Order == <<"copy", "disconnect", "dropdb", "createdb", "postgis",
              "timescaledb", "pre_restore", "pg_restore", "post_restore">>

\* C1: in every restore run that reaches the container the calls are issued
\* in the order copy, disconnect, drop, create, extensions, pre-hook, load,
\* post-hook, each at most once and none before the previous one returned;
\* a run that reaches its end has issued all of them.
C1_RestoreOrder ==
    /\ Len(issued) <= Len(C1_Order)
    /\ issued = SubSeq(C1_Order, 1, Len(issued))
    /\ \A i \in 2..(Len(issued) - 1) : Returned(issued[i])
    /\ (rpc = "done" /\ container # NoContainer) => issued = C1_Order

C1_Witness ==
    /\ rpc = "done"
    /\ issued = C1_Order
    /\ exit_code["disconnect"] = 0
    /\ exit_code["dropdb"] = 0

\* C2: once the load (pg_restore) has returned, with exit code 0 or not, the
\* post-restore hook is the next call and is issued exactly once after it.
C2_PostHookOnce ==
    /\ Count("post_restore") <= 1
    /\ (Returned("pg_restore") /\ rpc # "post_restore") =>
          /\ Count("post_restore") = 1
          /\ Pos("post_restore") = Pos("pg_restore") + 1

C2_Witness ==
    /\ rpc = "done"
    /\ Returned("pg_restore")
    /\ exit_code["pg_restore"] # 0
    /\ Count("post_restore") = 1
    /\ "Restore failed." \in rlog

C3_Checked == {"disconnect", "dropdb", "createdb", "postgis", "timescaledb",
               "pre_restore"}

\* C3: each step is checked for success before the next one starts: after a
\* disconnect, drop, create, extension or pre-hook command that exited
\* non-zero, no later step up to and including the load is issued.
C3_StepsChecked ==
    \A i \in 1..Len(issued) :
        (issued[i] \in C3_Checked /\ Returned(issued[i])
            /\ exit_code[issued[i]] # 0)
        => \A j \in (i + 1)..Len(issued) :
               issued[j] \notin C3_Checked \cup {"pg_restore"}

\* C10: when the drop is about to execute after a disconnect that exited 0,
\* no other client has a backend connected to the target database.
C10_NoConnectionAtDrop ==
    (rpc = "dropdb" /\ Returned("disconnect") /\ exit_code["disconnect"] = 0)
        => conns = {}

\* =================================================== claims on deploy.py
UpIssued == Contains(compose, "up")
DownBeforeUp ==
    IndexOf(compose, "down", 1) # 0
    /\ IndexOf(compose, "down", 1) < IndexOf(compose, "up", 1)

\* C5: deploy(force=True) never prompts, and whenever the stack is
\* running when deploy starts, 'down' is issued and completes before 'up -d',
\* which is never issued while the previous stack is still running.
C5_ForceAlwaysTearsDown ==
    force => /\ ~prompted
             /\ (runningAtStart /\ UpIssued) => DownBeforeUp
             /\ ~upWhileRunning

\* C6: with a configuration file, when 'up -d' is issued the environment
\* holds a non-empty value for both password keys (the configured value when
\* present and non-blank, else the generated value that was displayed), for
\* a blank key and for an absent key alike; every other configured key holds
\* its configured value.
C6_PasswordsInEnvironment ==
    (config.exists /\ UpIssued) =>
        /\ \A k \in PasswordKeys :
              /\ k \in DOMAIN environ
              /\ environ[k] # ""
              /\ environ[k] = IF NeedsPassword(config.data, k)
                              THEN generated[k] ELSE config.data[k]
        /\ \A k \in (DOMAIN config.data) \ PasswordKeys :
              k \in DOMAIN environ /\ environ[k] = config.data[k]

\* restore.py ended after a command exited non-zero, or without a container
\* or a backup file
RestoreFailed ==
    /\ rpc \in {"done", "crashed"}
    /\ \/ container_name = <<>>
       \/ backup_file = <<>>
       \/ \E t \in DOMAIN exit_code : exit_code[t] # 0

\* C9: a failed restore ends with a failure status, so deploy never reports
\* its post-deployment tasks completed after a failed restore.
C9_FailureReflected ==
    RestoreFailed => /\ rstatus # 0
                     /\ "Post-deployment tasks completed." \notin dlog

\* =================================================== claims on backup.py
\* C7: an archive written by backup.py and then given to restore.py is loaded
\* by pg_restore and leaves the database with exactly the dumped rows.
C7_RoundTrip ==
    (/\ "Backup completed" \in blog
     /\ dump_code = 0
     /\ rpc = "done"
     /\ backup_file = bbackup_file)
    => /\ Returned("pg_restore")
       /\ exit_code["pg_restore"] = 0
       /\ dbRows = dumped

\* C8: a pg_dump that exits non-zero fails the backup: nothing is copied to
\* the host and 'Backup completed' is not reported.
C8_DumpChecked ==
    (dump_code # 0 /\ dump_code # -1) =>
        /\ "Backup completed" \notin blog
        /\ FileNamed(hostFiles, bbackup_file).fmt # "tar"

\* ======================================== claim on credential extraction
\* the entries of env list l that carry a POSTGRES_ key and a value
C4_Entries(l) ==
    {i \in 1..Len(l) : StartsWith(l[i], PREFIX) /\ Contains(l[i], "=")}

\* d holds exactly the POSTGRES_ keys of l, each with everything after the
\* first "=" of one of its entries
C4_Conforms(d, l) ==
    /\ DOMAIN d = {SplitFirst(l[i])[1] : i \in C4_Entries(l)}
    /\ \A k \in DOMAIN d :
          \E i \in C4_Entries(l) :
              SplitFirst(l[i])[1] = k /\ d[k] = SplitFirst(l[i])[2]

\* p is the whole value of POSTGRES_PASSWORD in l, or empty when absent
C4_Password(p, l) ==
    IF \E i \in C4_Entries(l) : SplitFirst(l[i])[1] = POSTGRES_PASSWORD
    THEN \E i \in C4_Entries(l) :
            SplitFirst(l[i])[1] = POSTGRES_PASSWORD /\ p = SplitFirst(l[i])[2]
    ELSE p = <<>>

\* C4: in backup.py and in restore.py credential extraction maps every
\* environment list to the mapping of its POSTGRES_ keys, each value being
\* everything after the first "=", and the password used as PGPASSWORD is
\* that whole value, or empty when the key is absent.
C4_CredentialExtraction ==
    /\ bpc \in {"dump", "crashed"} =>
          /\ ~benv_vars.raised
          /\ C4_Conforms(benv_vars.d, docker[1].Env)
          /\ C4_Password(bcreds.password, docker[1].Env)
    /\ rpc = "copy" =>
          /\ C4_Conforms(env_vars, docker[1].Env)
          /\ C4_Password(env, docker[1].Env)

====
